---- MODULE Spec2Model ----
(***************************************************************************)
(* Model of backend/server.js of the learning-games site: the bulk ZIP     *)
(* upload handler (POST /api/admin/bulk-upload) and the single-game upload *)
(* handler (POST /api/admin/games) with their middleware, the leaderboard  *)
(* submit handler, the rate handler, and comment moderation with the Admin *)
(* component of the frontend.                                              *)
(*                                                                         *)
(* Paths are sequences of segments ("a/b" is <<"a","b">>).  Node runs one   *)
(* handler at a time between awaits: `running` is the request that holds   *)
(* the event loop, and it is released at every await.                      *)
(***************************************************************************)
EXTENDS Integers, Sequences, FiniteSets, TLC

\* ------------------------------------------------------------------ bounds
MaxTime == 2        \* Date.now() ranges over 0..MaxTime
MaxSubmits == 3     \* leaderboard submissions after the initial ones
MaxRates == 4       \* rate operations
MaxScore == 3       \* scores range over 1..MaxScore
MaxComments == 3    \* comments posted
MaxPresses == 3     \* Approve and Delete presses
MaxOtherSaves == 1  \* saves of the same game document by the other routes
MaxBare == 4        \* longest leaderboard that takes a submission without score

\* The two admin upload requests in flight (successive or concurrent), each
\* to the bulk-upload route or to the single-game route, and the two handler
\* slots of the leaderboard and rate routes.
Reqs == {"r1", "r2"}
NoReq == "none"
Slots == {1, 2}
Users == {"u1", "u2"}
\* req.user.id of the caller each slot serves
SlotUser == <<"u1", "u2">>
Scores == 1..MaxScore

\* ------------------------------------------------------- request contents
\* server.js:35  uploadDir = path.join(__dirname, 'uploads')
uploadDir == <<"uploads">>

\* Text of an archive entry as JSON.parse sees it: not JSON at all, the
\* JSON value null, or a JSON object with the given members.
TextInvalid == [json |-> "invalid"]
TextNull == [json |-> "null"]
TextObject(m) == [json |-> "object", value |-> m]

MetaFull ==
  [title |-> "Add", description |-> "sums", category |-> "math",
   tags |-> <<"k1">>, lessonTitle |-> "L1", lessonContent |-> "<p>",
   quizzes |-> <<[question |-> "2+2", options |-> <<"3", "4">>, answerIndex |-> 1]>>]
MetaEmpty == [f \in {} |-> ""]
MetaBlankTitle == [title |-> "", description |-> "d2"]

FileEntry(name, data) == [entryName |-> name, isDirectory |-> FALSE, data |-> data]
DirEntry(name) == [entryName |-> name \o <<"">>, isDirectory |-> TRUE, data |-> TextInvalid]

GameFolder(folder, metaRaw) ==
  << FileEntry(folder \o <<"metadata.json">>, metaRaw),
     FileEntry(folder \o <<"index.html">>, TextInvalid) >>

ArchTwo ==
  <<DirEntry(<<"a">>)>> \o GameFolder(<<"a">>, TextObject(MetaFull))
     \o GameFolder(<<"b">>, TextObject(MetaEmpty))
ArchBroken ==
  GameFolder(<<"broken">>, TextInvalid) \o GameFolder(<<"a">>, TextObject(MetaBlankTitle))
ArchNested ==
  GameFolder(<<"x", "a">>, TextObject(MetaFull)) \o GameFolder(<<"a">>, TextObject(MetaEmpty))
ArchNull == GameFolder(<<"a">>, TextNull)
ArchNoValid == GameFolder(<<"broken">>, TextInvalid)

Archives == {ArchTwo, ArchBroken, ArchNested, ArchNull, ArchNoValid}

\* What multer hands over as req.file: nothing, a file AdmZip cannot read,
\* or a readable archive.
Uploads ==
  {[kind |-> "none", entries |-> <<>>], [kind |-> "corrupt", entries |-> <<>>]}
    \cup {[kind |-> "zip", entries |-> a] : a \in Archives}

\* The Authorization header: absent, a token jwt.verify rejects, or a valid
\* token carrying the role.
Tokens == {"none", "invalid", "user", "admin"}

\* -------------------------------------------------------------- variables
VARIABLES
  now,          \* Date.now()
  running,      \* request holding the event loop, or NoReq
  pc,           \* position of each request's handler
  req,          \* token and upload of each request
  tmp,          \* requests whose multer temp file (req.file.path) is on disk
  idx,          \* loop position in `entries`
  meta,         \* parsed manifest of the folder in progress
  targetFolder, \* targetFolder of the folder in progress
  fidx,         \* position in the filtered entry list of the folder
  created,      \* the handler's `created` array
  resp,         \* response sent, status 0 while none
  cause,        \* what made the handler enter its catch block
  storage,      \* files under uploadDir: path -> content
  catalog       \* Game collection, in creation order

\* single-game upload (server.js:185-205)
VARIABLES
  body,         \* req.body and req.file of each request to POST /api/admin/games
  screated,     \* the documents Game.create has stored for each such request
  persisted     \* the documents Game.create has stored for each import

singleVars == <<body, screated, persisted>>

importVars == <<now, running, pc, req, tmp, idx, meta, targetFolder, fidx,
                created, resp, cause, storage, catalog, singleVars>>

\* leaderboard submit (server.js:174-182)
VARIABLES
  leaderboard,  \* g.leaderboard as stored
  lbVersion,    \* the document's __v
  lbPc,         \* position of each leaderboard handler
  lbReq,        \* req.body of each handler's request
  lbDoc,        \* g of each handler: the document findById returned, then
                \* with the handler's own changes to g.leaderboard
  lbResp,       \* response of each handler's last request
  nsub,         \* submissions pushed so far
  lbLeft,       \* submissions the bound still allows
  submitted,    \* the entries of the submissions made, oldest first
  lbOther       \* saves of the document by other routes so far

boardVars == <<leaderboard, lbVersion, lbPc, lbReq, lbDoc, lbResp, nsub, lbLeft,
               submitted, lbOther>>

\* rate (server.js:140-148)
VARIABLES
  ratings,      \* g.ratings as stored
  rtVersion,    \* the document's __v
  rtPc,         \* position of each rate handler
  rtReq,        \* req.user.id and req.body.score of each handler
  rtDoc,        \* the document each handler loaded with findById
  rtResp,       \* response of each handler's last request
  rtLeft,       \* rate operations the bound still allows
  lastRated,    \* the score of each user's most recent rate operation
  rtOther       \* saves of the document by other routes so far

rateVars == <<ratings, rtVersion, rtPc, rtReq, rtDoc, rtResp, rtLeft, lastRated,
              rtOther>>

\* comment moderation (server.js:151-158, 286-308, and the Admin component)
VARIABLES
  comments,     \* g.comments of each game, as stored
  cmVersion,    \* each game document's __v
  view,         \* the Admin component's `comments` state: the rows shown
  ncomment,     \* comments stored so far
  npress,       \* Approve and Delete presses so far
  post,         \* the comment handler in flight
  adm,          \* the dashboard's requests in flight
  cmOther       \* saves of a game document by other routes so far

adminVars == <<comments, cmVersion, view, ncomment, npress, post, adm, cmOther>>

\* ---------------------------------------------------------------- helpers
Last(s) == s[Len(s)]
Front(s) == SubSeq(s, 1, Len(s) - 1)

\* entry.entryName.split('/') ends in 'metadata.json' and has >= 2 parts
IsManifest(e) == Len(e.entryName) >= 2 /\ Last(e.entryName) = "metadata.json"

\* en.entryName.startsWith(folder + '/')
StartsWithFolder(en, folder) ==
  /\ Len(en.entryName) > Len(folder)
  /\ SubSeq(en.entryName, 1, Len(folder)) = folder

\* entries.filter(en => en.entryName.startsWith(folder+'/'))
FolderEntries(entries, folder) ==
  SelectSeq(entries, LAMBDA en : StartsWithFolder(en, folder))

\* en.entryName.substring(folder.length+1)
Rel(en, folder) == SubSeq(en.entryName, Len(folder) + 1, Len(en.entryName))

\* (variant: JSON.parse accepts any text)
ParseThrows_never(raw) == FALSE

\* JSON.parse(metaRaw) throws
ParseThrows(raw) == raw.json = "invalid"

\* path.join(uploadDir, folder + '_' + Date.now())
TargetFolderOf(folder, t) ==
  uploadDir \o Front(folder) \o <<Last(folder) \o "_" \o ToString(t)>>

\* path.basename(targetFolder)
Basename(p) == Last(p)

\* `/games/files/${path.basename(targetFolder)}/index.html`
ServeUrl(target) == <<"games", "files", Basename(target), "index.html">>

\* path.join(uploadDir, path.basename(targetFolder))
DestDir(target) == uploadDir \o <<Basename(target)>>

IsUnder(p, dir) == Len(p) > Len(dir) /\ SubSeq(p, 1, Len(dir)) = dir

FilesUnder(st, dir) == {p \in DOMAIN st : IsUnder(p, dir)}

\* fs.writeFileSync(outPath, data)
WriteFileSync(st, p, data) ==
  [q \in DOMAIN st \cup {p} |-> IF q = p THEN data ELSE st[q]]

\* fs.renameSync(from, to) on a directory: ENOTEMPTY when `to` is another,
\* non-empty directory
RenameThrows(st, from, to) == from # to /\ FilesUnder(st, to) # {}

RenameSync(st, from, to) ==
  IF from = to THEN st
  ELSE LET moved == FilesUnder(st, from)
           dst(p) == to \o SubSeq(p, Len(from) + 1, Len(p))
           kept == DOMAIN st \ moved
       IN [q \in kept \cup {dst(p) : p \in moved} |->
             IF q \in kept THEN st[q]
             ELSE st[CHOOSE p \in moved : dst(p) = q]]

\* (variant: meta.f ?? dflt, only undefined gets the default)
OrText_nullish(m, f, dflt) == IF f \in DOMAIN m THEN m[f] ELSE dflt

\* meta.f || dflt for a text member: undefined and '' are falsy
OrText(m, f, dflt) == IF f \in DOMAIN m /\ m[f] # "" THEN m[f] ELSE dflt

\* meta.f || [] for an array member: every array is truthy
OrArray(m, f) == IF f \in DOMAIN m THEN m[f] ELSE <<>>

\* the document handed to Game.create
NewGame(m, serveUrl, id) ==
  [_id |-> id,
   title |-> OrText(m, "title", "Untitled"),
   description |-> OrText(m, "description", ""),
   category |-> OrText(m, "category", ""),
   tags |-> OrArray(m, "tags"),
   filePath |-> serveUrl,
   lesson |-> [title |-> OrText(m, "lessonTitle", ""),
               content |-> OrText(m, "lessonContent", "")],
   quizzes |-> OrArray(m, "quizzes")]

\* created.slice(0,20)
PreviewLimit == 20
Preview(c) == SubSeq(c, 1, IF Len(c) < PreviewLimit THEN Len(c) ELSE PreviewLimit)

\* (variant: the role check lets every role through)
IsAdmin_any(token) == TRUE

\* req.user.role !== 'admin' is false
IsAdmin(token) == token = "admin"

\* (variant: an unreadable archive reads as an empty one)
ZipThrows_never(upload) == FALSE

\* new AdmZip(req.file.path) throws
ZipThrows(upload) == upload.kind = "corrupt"

\* (variant: a record whose title is already in the catalog is not added)
GameCreate_dedupe(coll, g) ==
  IF \E i \in 1..Len(coll) : coll[i].title = g.title THEN coll ELSE Append(coll, g)

\* Game.create persists a new document, whatever the collection holds
GameCreate(coll, g) == Append(coll, g)

\* (variant: the temp file is never removed)
UnlinkSync_noop(files, r) == files

\* fs.unlinkSync(req.file.path)
UnlinkSync(files, r) == files \ {r}

NoResp == [status |-> 0]
Entries(r) == req[r].upload.entries
Folder(r) == Front(Entries(r)[idx[r]].entryName)

\* ------------------------------------------- single-game upload contents
\* The body of a POST /api/admin/games request.  The tags field of the
\* multipart body, and each tag parsed from it, is a sequence of UTF-16 code
\* units; `file` tells whether a gameFile part came with it.
TextArray(v) == [json |-> "array", value |-> v]

BodyFull ==
  [title |-> "Add", description |-> "one", category |-> "math",
   lessonTitle |-> "L1",
   \* "\uFEFFk1\v,\u3000k 2\u2029"
   tags |-> <<65279, 107, 49, 11, 44, 12288, 107, 32, 50, 8233>>,
   quizzes |-> TextArray(<<>>),
   file |-> TRUE]
BodyNoFile == [title |-> "nofile", file |-> FALSE]
BodyBadQuizzes ==
  \* ", \u00A0\u200A\t"
  [title |-> "bad", tags |-> <<44, 32, 160, 8202, 9>>, quizzes |-> TextInvalid,
   file |-> TRUE]
Bodies == {BodyFull, BodyNoFile, BodyBadQuizzes}
NoBody == [file |-> FALSE]

\* req.file.filename: the name multer gives the stored part
MulterName(r) == "upload_" \o r

\* ','
Comma == 44

\* tags.split(','): the pieces between the commas
RECURSIVE Split(_, _)
Split(chars, piece) ==
  IF chars = <<>> THEN <<piece>>
  ELSE IF Head(chars) = Comma THEN <<piece>> \o Split(Tail(chars), <<>>)
  ELSE Split(Tail(chars), Append(piece, Head(chars)))

\* The code units String.prototype.trim strips: WhiteSpace (tab, vertical
\* tab, form feed, U+FEFF and the space separators: space, no-break space,
\* U+1680, U+2000 to U+200A, U+202F, U+205F, U+3000) and LineTerminator
\* (line feed, carriage return, U+2028, U+2029)
WhiteSpace ==
  {9, 11, 12, 65279, 32, 160, 5760, 8239, 8287, 12288} \cup (8192..8202)
    \cup {10, 13, 8232, 8233}

\* t.trim()
RECURSIVE Trim(_)
Trim(piece) ==
  IF piece = <<>> THEN piece
  ELSE IF Head(piece) \in WhiteSpace THEN Trim(Tail(piece))
  ELSE IF Last(piece) \in WhiteSpace THEN Trim(Front(piece))
  ELSE piece

\* server.js:188  (tags||'').split(',').map(t=>t.trim()).filter(Boolean)
ParsedTags(b) ==
  LET text == IF "tags" \in DOMAIN b THEN b.tags ELSE <<>>
      pieces == Split(text, <<>>)
      trimmed == [i \in 1..Len(pieces) |-> Trim(pieces[i])]
  IN SelectSeq(trimmed, LAMBDA t : t # <<>>)

\* server.js:189  quizzes ? JSON.parse(quizzes) : []
QuizzesThrow(b) == "quizzes" \in DOMAIN b /\ b.quizzes.json = "invalid"
ParsedQuizzes(b) == IF "quizzes" \in DOMAIN b THEN b.quizzes.value ELSE <<>>

\* server.js:190-201  filePath (USE_S3 is off unless the environment sets it)
SingleFilePath(b, r) ==
  IF b.file THEN <<"games", "files", MulterName(r)>> ELSE <<>>

Members(b, fields) == [f \in DOMAIN b \cap fields |-> b[f]]

\* lesson: { title: lessonTitle, content: lessonContent }
Lesson(b) ==
  LET from == [title |-> "lessonTitle", content |-> "lessonContent"]
  IN [f \in {k \in DOMAIN from : from[k] \in DOMAIN b} |-> b[from[f]]]

\* server.js:202  the document handed to Game.create; a member that is
\* undefined is not stored
SingleGame(b, r, id) ==
  LET given == Members(b, {"title", "description", "category"})
      rest == [_id |-> id,
               tags |-> ParsedTags(b),
               filePath |-> SingleFilePath(b, r),
               lesson |-> Lesson(b),
               quizzes |-> ParsedQuizzes(b)]
  IN [f \in DOMAIN given \cup DOMAIN rest |->
        IF f \in DOMAIN rest THEN rest[f] ELSE given[f]]

\* ------------------------------------------------------------------- init
NoUpload == [kind |-> "none", entries |-> <<>>]

ImportInit ==
  /\ now = 0
  /\ running = NoReq
  /\ pc = [r \in Reqs |-> "new"]
  /\ req = [r \in Reqs |-> [token |-> "none", upload |-> NoUpload]]
  /\ tmp = {}
  /\ idx = [r \in Reqs |-> 0]
  /\ meta = [r \in Reqs |-> TextNull]
  /\ targetFolder = [r \in Reqs |-> <<>>]
  /\ fidx = [r \in Reqs |-> 0]
  /\ created = [r \in Reqs |-> <<>>]
  /\ resp = [r \in Reqs |-> NoResp]
  /\ cause = [r \in Reqs |-> "none"]
  /\ storage = [p \in {} |-> TextInvalid]
  /\ catalog = <<>>
  /\ body = [r \in Reqs |-> NoBody]
  /\ screated = [r \in Reqs |-> <<>>]
  /\ persisted = [r \in Reqs |-> <<>>]

\* ---------------------------------------------------------------- actions
\* Date.now() advances
Tick ==
  /\ now < MaxTime
  /\ now' = now + 1
  /\ UNCHANGED <<running, pc, req, tmp, idx, meta, targetFolder, fidx,
                 created, resp, cause, storage, catalog>>
  /\ UNCHANGED <<singleVars, boardVars, rateVars, adminVars>>

Respond(r, status) ==
  /\ resp' = [resp EXCEPT ![r] = [status |-> status]]
  /\ pc' = [pc EXCEPT ![r] = "done"]

\* server.js:81-85  the same middleware opens both upload routes
authMiddleware(r) ==
  /\ pc[r] = "new"
  /\ running = NoReq
  /\ \E t \in Tokens :
       /\ req' = [req EXCEPT ![r].token = t]
       /\ IF t \in {"none", "invalid"}
            THEN Respond(r, 401)
            ELSE /\ pc' = [pc EXCEPT ![r] = "upload"]
                 /\ UNCHANGED resp
  /\ UNCHANGED <<now, running, tmp, idx, meta, targetFolder, fidx, created,
                 cause, storage, catalog>>
  /\ UNCHANGED <<singleVars, boardVars, rateVars, adminVars>>

\* server.js:208  upload.single('zipFile'): multer stores the file part
uploadSingle(r) ==
  /\ pc[r] = "upload"
  /\ running = NoReq
  /\ \E u \in Uploads :
       /\ req' = [req EXCEPT ![r].upload = u]
       /\ tmp' = IF u.kind = "none" THEN tmp ELSE tmp \cup {r}
  /\ pc' = [pc EXCEPT ![r] = "handler"]
  /\ UNCHANGED <<now, running, idx, meta, targetFolder, fidx, created,
                 resp, cause, storage, catalog>>
  /\ UNCHANGED <<singleVars, boardVars, rateVars, adminVars>>

\* server.js:209-215  role check, file check, new AdmZip, getEntries
BulkUploadBegin(r) ==
  /\ pc[r] = "handler"
  /\ running = NoReq
  /\ IF ~IsAdmin(req[r].token)
       THEN Respond(r, 403) /\ UNCHANGED <<running, idx, cause>>
     ELSE IF req[r].upload.kind = "none"
       THEN Respond(r, 400) /\ UNCHANGED <<running, idx, cause>>
     ELSE IF ZipThrows(req[r].upload)
       THEN /\ pc' = [pc EXCEPT ![r] = "catch"]
            /\ cause' = [cause EXCEPT ![r] = "archive"]
            /\ running' = r
            /\ UNCHANGED <<resp, idx>>
     ELSE /\ pc' = [pc EXCEPT ![r] = "scan"]
          /\ idx' = [idx EXCEPT ![r] = 1]
          /\ running' = r
          /\ UNCHANGED <<resp, cause>>
  /\ UNCHANGED <<now, req, tmp, meta, targetFolder, fidx, created, storage,
                 catalog>>
  /\ UNCHANGED <<singleVars, boardVars, rateVars, adminVars>>

Throw(r, why) ==
  /\ pc' = [pc EXCEPT ![r] = "catch"]
  /\ cause' = [cause EXCEPT ![r] = why]

\* server.js:216-226  one turn of the for loop up to mkdirSync(targetFolder)
ScanEntry(r) ==
  /\ pc[r] = "scan"
  /\ running = r
  /\ IF idx[r] > Len(Entries(r))
       THEN /\ pc' = [pc EXCEPT ![r] = "unlink"]
            /\ UNCHANGED <<idx, meta, targetFolder, fidx, cause>>
     ELSE LET entry == Entries(r)[idx[r]] IN
       IF entry.isDirectory \/ ~IsManifest(entry) \/ ParseThrows(entry.data)
         THEN /\ idx' = [idx EXCEPT ![r] = @ + 1]
              /\ UNCHANGED <<pc, meta, targetFolder, fidx, cause>>
         ELSE /\ meta' = [meta EXCEPT ![r] = entry.data]
              /\ targetFolder' = [targetFolder EXCEPT ![r] = TargetFolderOf(Folder(r), now)]
              /\ \/ /\ pc' = [pc EXCEPT ![r] = "write"]
                    /\ fidx' = [fidx EXCEPT ![r] = 1]
                    /\ UNCHANGED cause
                 \/ /\ Throw(r, "mkdir")
                    /\ UNCHANGED fidx
              /\ UNCHANGED idx
  /\ UNCHANGED <<now, running, req, tmp, created, resp, storage, catalog>>
  /\ UNCHANGED <<singleVars, boardVars, rateVars, adminVars>>

\* server.js:227-233  one turn of the forEach over the folder's entries
WriteFile(r) ==
  /\ pc[r] = "write"
  /\ running = r
  /\ LET list == FolderEntries(Entries(r), Folder(r)) IN
       IF fidx[r] > Len(list)
         THEN /\ pc' = [pc EXCEPT ![r] = "rename"]
              /\ UNCHANGED <<fidx, storage, cause>>
       ELSE LET en == list[fidx[r]]
                outPath == targetFolder[r] \o Rel(en, Folder(r)) IN
         IF en.isDirectory
           THEN /\ fidx' = [fidx EXCEPT ![r] = @ + 1]
                /\ UNCHANGED <<pc, storage, cause>>
           ELSE \/ /\ storage' = WriteFileSync(storage, outPath, en.data)
                   /\ fidx' = [fidx EXCEPT ![r] = @ + 1]
                   /\ UNCHANGED <<pc, cause>>
                \/ /\ Throw(r, "write")
                   /\ UNCHANGED <<fidx, storage>>
  /\ UNCHANGED <<now, running, req, tmp, idx, meta, targetFolder, created,
                 resp, catalog>>
  /\ UNCHANGED <<singleVars, boardVars, rateVars, adminVars>>

\* server.js:235-240  readdirSync, serveUrl, destDir, renameSync
Rename(r) ==
  /\ pc[r] = "rename"
  /\ running = r
  /\ LET destDir == DestDir(targetFolder[r]) IN
       IF RenameThrows(storage, targetFolder[r], destDir)
         THEN Throw(r, "collision") /\ UNCHANGED storage
         ELSE \/ /\ storage' = RenameSync(storage, targetFolder[r], destDir)
                 /\ pc' = [pc EXCEPT ![r] = "create"]
                 /\ UNCHANGED cause
              \/ Throw(r, "rename") /\ UNCHANGED storage
  /\ UNCHANGED <<now, running, req, tmp, idx, meta, targetFolder, fidx,
                 created, resp, catalog>>
  /\ UNCHANGED <<singleVars, boardVars, rateVars, adminVars>>

\* server.js:242-246  the argument of Game.create is built (meta.title on
\* null is a TypeError) and the create is sent; the handler awaits
CreateGame(r) ==
  /\ pc[r] = "create"
  /\ running = r
  /\ IF meta[r].json = "null"
       THEN Throw(r, "typeerror") /\ UNCHANGED running
       ELSE /\ pc' = [pc EXCEPT ![r] = "await"]
            /\ running' = NoReq
            /\ UNCHANGED cause
  /\ UNCHANGED <<now, req, tmp, idx, meta, targetFolder, fidx, created, resp,
                 storage, catalog>>
  /\ UNCHANGED <<singleVars, boardVars, rateVars, adminVars>>

\* server.js:242  the database stores the document Game.create sent.  The
\* handler is still suspended: until it resumes, the record exists and the
\* handler's `created` does not hold it.
GameStored(r) ==
  /\ pc[r] = "await"
  /\ LET g == NewGame(meta[r].value, ServeUrl(targetFolder[r]), Len(catalog) + 1) IN
       /\ catalog' = GameCreate(catalog, g)
       /\ persisted' = [persisted EXCEPT ![r] = Append(@, g)]
  /\ pc' = [pc EXCEPT ![r] = "stored"]
  /\ UNCHANGED <<now, running, req, tmp, idx, meta, targetFolder, fidx,
                 created, resp, cause, storage, body, screated>>
  /\ UNCHANGED <<boardVars, rateVars, adminVars>>

\* server.js:242, 247  the await resumes with the stored document g and
\* created.push(g) runs, or the create has been rejected and the await throws
GameCreated(r) ==
  /\ running = NoReq
  /\ running' = r
  /\ \/ /\ pc[r] = "stored"
        /\ created' = [created EXCEPT ![r] = Append(@, Last(persisted[r]))]
        /\ idx' = [idx EXCEPT ![r] = @ + 1]
        /\ pc' = [pc EXCEPT ![r] = "scan"]
        /\ UNCHANGED cause
     \/ /\ pc[r] = "await"
        /\ Throw(r, "db")
        /\ UNCHANGED <<created, idx>>
  /\ UNCHANGED <<now, req, tmp, meta, targetFolder, fidx, resp, storage,
                 catalog>>
  /\ UNCHANGED <<singleVars, boardVars, rateVars, adminVars>>

\* server.js:250  fs.unlinkSync(req.file.path)
Unlink(r) ==
  /\ pc[r] = "unlink"
  /\ running = r
  /\ \/ /\ tmp' = UnlinkSync(tmp, r)
        /\ pc' = [pc EXCEPT ![r] = "send"]
        /\ UNCHANGED cause
     \/ /\ Throw(r, "unlink")
        /\ UNCHANGED tmp
  /\ UNCHANGED <<now, running, req, idx, meta, targetFolder, fidx, created,
                 resp, storage, catalog>>
  /\ UNCHANGED <<singleVars, boardVars, rateVars, adminVars>>

\* server.js:251  res.send({ created: created.length, items: created.slice(0,20) })
SendSummary(r) ==
  /\ pc[r] = "send"
  /\ running = r
  /\ resp' = [resp EXCEPT ![r] =
                [status |-> 200, created |-> Len(created[r]),
                 items |-> Preview(created[r])]]
  /\ pc' = [pc EXCEPT ![r] = "done"]
  /\ running' = NoReq
  /\ UNCHANGED <<now, req, tmp, idx, meta, targetFolder, fidx, created, cause,
                 storage, catalog>>
  /\ UNCHANGED <<singleVars, boardVars, rateVars, adminVars>>

\* server.js:252-255
Catch(r) ==
  /\ pc[r] = "catch"
  /\ running = r
  /\ resp' = [resp EXCEPT ![r] = [status |-> 500, error |-> "Failed processing zip"]]
  /\ pc' = [pc EXCEPT ![r] = "done"]
  /\ running' = NoReq
  /\ UNCHANGED <<now, req, tmp, idx, meta, targetFolder, fidx, created, cause,
                 storage, catalog>>
  /\ UNCHANGED <<singleVars, boardVars, rateVars, adminVars>>

\* ------------------------------------------------ single-game upload
\* server.js:185  upload.single('gameFile'): multer fills req.body and
\* stores the file part, if there is one, in uploadDir
uploadGameFile(r) ==
  /\ pc[r] = "upload"
  /\ running = NoReq
  /\ \E b \in Bodies :
       /\ body' = [body EXCEPT ![r] = b]
       /\ tmp' = IF b.file THEN tmp \cup {r} ELSE tmp
  /\ pc' = [pc EXCEPT ![r] = "single"]
  /\ UNCHANGED <<now, running, req, idx, meta, targetFolder, fidx, created,
                 resp, cause, storage, catalog, screated, persisted>>
  /\ UNCHANGED <<boardVars, rateVars, adminVars>>

\* server.js:186-202  role check, parsing of tags and quizzes, filePath; the
\* create is sent and the handler awaits.  A JSON.parse that throws rejects
\* the async handler: nothing is sent and nothing is created.
SingleBegin(r) ==
  /\ pc[r] = "single"
  /\ running = NoReq
  /\ IF ~IsAdmin(req[r].token)
       THEN Respond(r, 403)
     ELSE IF QuizzesThrow(body[r])
       THEN pc' = [pc EXCEPT ![r] = "failed"] /\ UNCHANGED resp
     ELSE pc' = [pc EXCEPT ![r] = "singleawait"] /\ UNCHANGED resp
  /\ UNCHANGED <<now, running, req, tmp, idx, meta, targetFolder, fidx,
                 created, cause, storage, catalog, body, screated, persisted>>
  /\ UNCHANGED <<boardVars, rateVars, adminVars>>

\* server.js:202  the database stores the document Game.create sent; the
\* handler is still suspended
SingleStored(r) ==
  /\ pc[r] = "singleawait"
  /\ LET g == SingleGame(body[r], r, Len(catalog) + 1) IN
       /\ catalog' = GameCreate(catalog, g)
       /\ screated' = [screated EXCEPT ![r] = Append(@, g)]
  /\ pc' = [pc EXCEPT ![r] = "singlestored"]
  /\ UNCHANGED <<now, running, req, tmp, idx, meta, targetFolder, fidx,
                 created, resp, cause, storage, body, persisted>>
  /\ UNCHANGED <<boardVars, rateVars, adminVars>>

\* server.js:202-203  the await resumes and res.send(g), or the create has
\* been rejected: the async handler rejects and nothing is sent
SingleCreated(r) ==
  /\ running = NoReq
  /\ \/ /\ pc[r] = "singlestored"
        /\ resp' = [resp EXCEPT ![r] = [status |-> 200, game |-> Last(screated[r])]]
        /\ pc' = [pc EXCEPT ![r] = "done"]
     \/ /\ pc[r] = "singleawait"
        /\ pc' = [pc EXCEPT ![r] = "failed"]
        /\ UNCHANGED resp
  /\ UNCHANGED <<now, running, req, tmp, idx, meta, targetFolder, fidx,
                 created, cause, storage, catalog>>
  /\ UNCHANGED <<singleVars, boardVars, rateVars, adminVars>>

ImportNext ==
  \/ Tick
  \/ \E r \in Reqs : uploadGameFile(r)
  \/ \E r \in Reqs : SingleBegin(r)
  \/ \E r \in Reqs : SingleStored(r)
  \/ \E r \in Reqs : SingleCreated(r)
  \/ \E r \in Reqs : authMiddleware(r)
  \/ \E r \in Reqs : uploadSingle(r)
  \/ \E r \in Reqs : BulkUploadBegin(r)
  \/ \E r \in Reqs : ScanEntry(r)
  \/ \E r \in Reqs : WriteFile(r)
  \/ \E r \in Reqs : Rename(r)
  \/ \E r \in Reqs : CreateGame(r)
  \/ \E r \in Reqs : GameStored(r)
  \/ \E r \in Reqs : GameCreated(r)
  \/ \E r \in Reqs : Unlink(r)
  \/ \E r \in Reqs : SendSummary(r)
  \/ \E r \in Reqs : Catch(r)

\* --------------------------------------------------------- interruption
\* server.js:109  app.use('/games/files', express.static(uploadDir)): the
\* file a URL under /games/files is served from
ServedPath(url) == uploadDir \o SubSeq(url, 3, Len(url))

\* The process stops (crash, kill, request timeout) at any step of an import.
\* Files and catalog records persist; every handler is gone.  A Game.create
\* that was awaited and is not stored yet may still reach the database.
Crash ==
  /\ \E r \in Reqs :
       pc[r] \notin {"new", "done", "failed", "crashed", "orphaned", "singleorphaned"}
  /\ pc' = [r \in Reqs |->
             IF pc[r] = "await" THEN "orphaned"
             ELSE IF pc[r] = "singleawait" THEN "singleorphaned"
             ELSE IF pc[r] \in {"done", "failed"} THEN pc[r]
             ELSE "crashed"]
  /\ running' = NoReq
  /\ UNCHANGED <<now, req, tmp, idx, meta, targetFolder, fidx, created, resp,
                 cause, storage, catalog>>
  /\ UNCHANGED <<singleVars, boardVars, rateVars, adminVars>>

\* server.js:242  the create sent before the crash is applied by the
\* database; no handler is left to push it onto `created`
CreateLands(r) ==
  /\ pc[r] = "orphaned"
  /\ LET g == NewGame(meta[r].value, ServeUrl(targetFolder[r]), Len(catalog) + 1) IN
       /\ catalog' = GameCreate(catalog, g)
       /\ persisted' = [persisted EXCEPT ![r] = Append(@, g)]
  /\ pc' = [pc EXCEPT ![r] = "crashed"]
  /\ UNCHANGED <<now, running, req, tmp, idx, meta, targetFolder, fidx,
                 created, resp, cause, storage, body, screated>>
  /\ UNCHANGED <<boardVars, rateVars, adminVars>>

\* server.js:202  the single-game create sent before the crash is applied
SingleLands(r) ==
  /\ pc[r] = "singleorphaned"
  /\ LET g == SingleGame(body[r], r, Len(catalog) + 1) IN
       /\ catalog' = GameCreate(catalog, g)
       /\ screated' = [screated EXCEPT ![r] = Append(@, g)]
  /\ pc' = [pc EXCEPT ![r] = "crashed"]
  /\ UNCHANGED <<now, running, req, tmp, idx, meta, targetFolder, fidx,
                 created, resp, cause, storage, body, persisted>>
  /\ UNCHANGED <<boardVars, rateVars, adminVars>>

\* ====================================================== leaderboard submit

\* server.js:179  slice(0,100)
LeaderboardCap == 100
\* server.js:181  slice(0,10)
LeaderboardTop == 10

Slice(s, n) == SubSeq(s, 1, IF Len(s) < n THEN Len(s) ELSE n)

\* req.body of a submission: score is not validated, so it is a number or
\* it is missing
LbBodies == {[score |-> v] : v \in Scores} \cup {[name |-> "n"]}

\* the entry has a score (b.score - a.score is NaN when one has none)
HasScore(e) == "score" \in DOMAIN e

\* The stable order of (a,b) => b.score - a.score on entries that all have a
\* score: the elements of the highest score come first, in the order they
\* had, then those of the next score, and so on down the score range.
RECURSIVE SortFrom(_, _)
SortFrom(s, v) ==
  IF v < 1 THEN <<>>
  ELSE SelectSeq(s, LAMBDA e : e.score = v) \o SortFrom(s, v - 1)

SortByScore(s) == SortFrom(s, MaxScore)

\* the rearrangements of s
Rearranged(s) ==
  LET n == Len(s)
      perms == {f \in [1..n -> 1..n] : \A i, j \in 1..n : i # j => f[i] # f[j]}
  IN {[i \in 1..n |-> s[f[i]]] : f \in perms}

\* server.js:179  what g.leaderboard.sort((a,b)=>b.score - a.score) can
\* leave.  With a score on every entry the comparator is consistent and the
\* sort is stable.  For an entry without score the comparator returns NaN,
\* which sort takes as 0 (equal to every other entry): when the entries that
\* have a score all have the same one, everything compares equal and the
\* order stays; otherwise the comparator is not consistent (1 = none,
\* none = 3, 1 < 3) and the order is implementation-defined.
SortOutcomes(s) ==
  LET scored == SelectSeq(s, HasScore) IN
    IF Len(scored) = Len(s) THEN {SortByScore(s)}
    ELSE IF \A i, j \in 1..Len(scored) : scored[i].score = scored[j].score THEN {s}
    ELSE Rearranged(s)

\* server.js:178-179  push, sort, slice
PushSortSlice(lb, e) ==
  {Slice(sorted, LeaderboardCap) : sorted \in SortOutcomes(Append(lb, e))}

\* server.js:178  the entry pushed; `no` is the order of the pushes (createdAt)
LbEntry(u, b, no) ==
  IF "score" \in DOMAIN b THEN [userId |-> u, score |-> b.score, no |-> no]
  ELSE [userId |-> u, no |-> no]

\* The leaderboard after k earlier submissions, k below the cap: each of them
\* was pushed and sorted in, and none was sliced off
InitialScore(i) == (MaxScore - 1) - (i % 2)
InitialSubmitted(k) == [i \in 1..k |-> LbEntry("u1", [score |-> InitialScore(i)], i)]
InitialBoard(k) == Slice(SortByScore(InitialSubmitted(k)), LeaderboardCap)
InitialLens == {0, LeaderboardCap - 1}

\* g = null
NoDoc == [v |-> -1, list |-> <<>>]

BoardIdle ==
  /\ lbVersion = 0
  /\ lbPc = [h \in Slots |-> "idle"]
  /\ lbReq = [h \in Slots |-> <<>>]
  /\ lbDoc = [h \in Slots |-> NoDoc]
  /\ lbResp = [h \in Slots |-> NoResp]
  /\ lbLeft = MaxSubmits
  /\ lbOther = 0

BoardInit ==
  /\ BoardIdle
  /\ \E k \in InitialLens :
       /\ leaderboard = InitialBoard(k)
       /\ nsub = k
       /\ submitted = InitialSubmitted(k)

BoardOff == BoardIdle /\ leaderboard = <<>> /\ nsub = 0 /\ submitted = <<>>

\* server.js:174-176  authMiddleware, then await Game.findById: the database
\* reads the document (or finds none)
LeaderboardFind(h) ==
  /\ lbPc[h] = "idle"
  /\ lbLeft > 0
  /\ \/ \E b \in LbBodies :
          \* a submission without score only on a board the bound keeps short
          /\ "score" \notin DOMAIN b => Len(leaderboard) + lbLeft <= MaxBare
          /\ lbLeft' = lbLeft - 1
          /\ lbReq' = [lbReq EXCEPT ![h] = b]
          /\ \/ lbDoc' = [lbDoc EXCEPT ![h] = [v |-> lbVersion, list |-> leaderboard]]
             \/ \* no game with this id
                lbDoc' = [lbDoc EXCEPT ![h] = NoDoc]
          /\ lbPc' = [lbPc EXCEPT ![h] = "loaded"]
          /\ lbResp' = [lbResp EXCEPT ![h] = NoResp]
     \/ \* no or invalid token
        /\ lbResp' = [lbResp EXCEPT ![h] = [status |-> 401]]
        /\ UNCHANGED <<lbReq, lbDoc, lbPc, lbLeft>>
  /\ UNCHANGED <<leaderboard, lbVersion, nsub, submitted, lbOther>>
  /\ UNCHANGED <<importVars, rateVars, adminVars>>

\* server.js:177-180  the await resumes: 404 without a game; else push, sort,
\* slice, and g.save() is sent
LeaderboardPush(h) ==
  /\ lbPc[h] = "loaded"
  /\ IF lbDoc[h] = NoDoc
       THEN /\ lbResp' = [lbResp EXCEPT ![h] = [status |-> 404]]
            /\ lbPc' = [lbPc EXCEPT ![h] = "idle"]
            /\ UNCHANGED <<lbDoc, nsub, submitted>>
       ELSE LET e == LbEntry(SlotUser[h], lbReq[h], nsub + 1) IN
              /\ \E list \in PushSortSlice(lbDoc[h].list, e) :
                   lbDoc' = [lbDoc EXCEPT ![h].list = list]
              /\ nsub' = nsub + 1
              /\ submitted' = Append(submitted, e)
              /\ lbPc' = [lbPc EXCEPT ![h] = "saving"]
              /\ UNCHANGED lbResp
  /\ UNCHANGED <<leaderboard, lbVersion, lbReq, lbLeft, lbOther>>
  /\ UNCHANGED <<importVars, rateVars, adminVars>>

\* server.js:180  the database applies the save.  The array was sorted and
\* assigned, so it is set as a whole and the update is conditional on the
\* __v that was loaded; on another __v nothing is stored and the save is
\* rejected with a VersionError: the handler's promise rejects and no
\* response is sent.
LeaderboardSave(h) ==
  /\ lbPc[h] = "saving"
  /\ IF lbDoc[h].v = lbVersion
       THEN /\ leaderboard' = lbDoc[h].list
            /\ lbVersion' = lbVersion + 1
            /\ lbPc' = [lbPc EXCEPT ![h] = "saved"]
            /\ UNCHANGED <<lbResp, lbDoc>>
       ELSE /\ lbResp' = [lbResp EXCEPT ![h] = [status |-> -1]]
            /\ lbPc' = [lbPc EXCEPT ![h] = "idle"]
            /\ lbDoc' = [lbDoc EXCEPT ![h] = NoDoc]
            /\ UNCHANGED <<leaderboard, lbVersion>>
  /\ UNCHANGED <<lbReq, nsub, lbLeft, submitted, lbOther>>
  /\ UNCHANGED <<importVars, rateVars, adminVars>>

\* server.js:181  the await resumes: res.send with g.leaderboard.slice(0,10)
LeaderboardRespond(h) ==
  /\ lbPc[h] = "saved"
  /\ lbResp' = [lbResp EXCEPT ![h] =
       [status |-> 200, shown |-> Len(Slice(lbDoc[h].list, LeaderboardTop))]]
  /\ lbPc' = [lbPc EXCEPT ![h] = "idle"]
  /\ lbDoc' = [lbDoc EXCEPT ![h] = NoDoc]
  /\ UNCHANGED <<leaderboard, lbVersion, lbReq, nsub, lbLeft, submitted, lbOther>>
  /\ UNCHANGED <<importVars, rateVars, adminVars>>

\* server.js:146, 156, 306  another route saves the same game document: a
\* rating, a comment ($push) or an admin delete (the comments array is set).
\* Each increments the document's __v and leaves the leaderboard as it is.
BoardOtherSave ==
  /\ lbOther < MaxOtherSaves
  /\ lbOther' = lbOther + 1
  /\ lbVersion' = lbVersion + 1
  /\ UNCHANGED <<leaderboard, lbPc, lbReq, lbDoc, lbResp, nsub, lbLeft, submitted>>
  /\ UNCHANGED <<importVars, rateVars, adminVars>>

BoardNext ==
  \/ \E h \in Slots : LeaderboardFind(h)
  \/ \E h \in Slots : LeaderboardPush(h)
  \/ \E h \in Slots : LeaderboardSave(h)
  \/ \E h \in Slots : LeaderboardRespond(h)
  \/ BoardOtherSave

\* ===================================================================== rate

NoRateReq == [user |-> "none", score |-> -1]

RateInit ==
  /\ ratings = <<>>
  /\ rtVersion = 0
  /\ rtPc = [h \in Slots |-> "idle"]
  /\ rtReq = [h \in Slots |-> NoRateReq]
  /\ rtDoc = [h \in Slots |-> NoDoc]
  /\ rtResp = [h \in Slots |-> NoResp]
  /\ rtLeft = MaxRates
  /\ lastRated = [u \in {} |-> -1]
  /\ rtOther = 0

\* g.ratings.filter(r => String(r.userId) !== String(req.user.id))
FilterOthers(list, u) == SelectSeq(list, LAMBDA r : r.userId # u)

\* server.js:145  the rating pushed
Rating(q) == [userId |-> q.user, score |-> q.score]

\* server.js:144-145  filter, then push
Rated(list, q) == Append(FilterOthers(list, q.user), Rating(q))

RECURSIVE SumScores(_)
SumScores(list) == IF list = <<>> THEN 0 ELSE Last(list).score + SumScores(Front(list))

\* server.js:140-142  authMiddleware, then await Game.findById: the database
\* reads the document (or finds none)
RateFind(h) ==
  /\ rtPc[h] = "idle"
  /\ rtLeft > 0
  /\ rtLeft' = rtLeft - 1
  /\ \/ \E u \in Users, score \in Scores :
          /\ rtReq' = [rtReq EXCEPT ![h] = [user |-> u, score |-> score]]
          /\ \/ rtDoc' = [rtDoc EXCEPT ![h] = [v |-> rtVersion, list |-> ratings]]
             \/ \* no game with this id
                rtDoc' = [rtDoc EXCEPT ![h] = NoDoc]
          /\ rtPc' = [rtPc EXCEPT ![h] = "loaded"]
          /\ rtResp' = [rtResp EXCEPT ![h] = NoResp]
     \/ \* no or invalid token
        /\ rtResp' = [rtResp EXCEPT ![h] = [status |-> 401]]
        /\ UNCHANGED <<rtReq, rtDoc, rtPc>>
  /\ UNCHANGED <<ratings, rtVersion, lastRated, rtOther>>
  /\ UNCHANGED <<importVars, boardVars, adminVars>>

\* server.js:143-146  the await resumes: 404 without a game; else filter,
\* push, and g.save() is sent.  The user has made a rate operation.
RatePush(h) ==
  /\ rtPc[h] = "loaded"
  /\ IF rtDoc[h] = NoDoc
       THEN /\ rtResp' = [rtResp EXCEPT ![h] = [status |-> 404]]
            /\ rtPc' = [rtPc EXCEPT ![h] = "idle"]
            /\ UNCHANGED lastRated
       ELSE /\ lastRated' = [w \in DOMAIN lastRated \cup {rtReq[h].user} |->
                               IF w = rtReq[h].user THEN rtReq[h].score
                               ELSE lastRated[w]]
            /\ rtPc' = [rtPc EXCEPT ![h] = "saving"]
            /\ UNCHANGED rtResp
  /\ UNCHANGED <<ratings, rtVersion, rtReq, rtDoc, rtLeft, rtOther>>
  /\ UNCHANGED <<importVars, boardVars, adminVars>>

\* server.js:146  the database applies the save (Mongoose).  When the filter
\* took the user's earlier rating out, the array assigned differs from the
\* one loaded: it is set as a whole and the update is conditional on the __v
\* that was loaded (on another __v nothing is stored, the save is rejected
\* with a VersionError and the handler sends nothing).  When the filter took
\* nothing out, the assignment changes nothing and only the push is sent, as
\* a $push of the new rating onto whatever is stored, without a __v check.
RateSave(h) ==
  /\ rtPc[h] = "saving"
  /\ LET q == rtReq[h]
         loaded == rtDoc[h].list
     IN IF FilterOthers(loaded, q.user) = loaded
          THEN /\ ratings' = Append(ratings, Rating(q))
               /\ rtVersion' = rtVersion + 1
               /\ rtPc' = [rtPc EXCEPT ![h] = "saved"]
               /\ UNCHANGED <<rtResp, rtDoc>>
          ELSE IF rtDoc[h].v = rtVersion
            THEN /\ ratings' = Rated(loaded, q)
                 /\ rtVersion' = rtVersion + 1
                 /\ rtPc' = [rtPc EXCEPT ![h] = "saved"]
                 /\ UNCHANGED <<rtResp, rtDoc>>
            ELSE /\ rtResp' = [rtResp EXCEPT ![h] = [status |-> -1]]
                 /\ rtPc' = [rtPc EXCEPT ![h] = "idle"]
                 /\ rtDoc' = [rtDoc EXCEPT ![h] = NoDoc]
                 /\ UNCHANGED <<ratings, rtVersion>>
  /\ UNCHANGED <<rtReq, rtLeft, lastRated, rtOther>>
  /\ UNCHANGED <<importVars, boardVars, adminVars>>

\* server.js:147  the await resumes: res.send with the average of the
\* handler's own g.ratings
RateRespond(h) ==
  /\ rtPc[h] = "saved"
  /\ LET list == Rated(rtDoc[h].list, rtReq[h]) IN
       rtResp' = [rtResp EXCEPT ![h] =
         [status |-> 200, sum |-> SumScores(list), count |-> Len(list)]]
  /\ rtPc' = [rtPc EXCEPT ![h] = "idle"]
  /\ rtDoc' = [rtDoc EXCEPT ![h] = NoDoc]
  /\ UNCHANGED <<ratings, rtVersion, rtReq, rtLeft, lastRated, rtOther>>
  /\ UNCHANGED <<importVars, boardVars, adminVars>>

\* server.js:156, 180, 306  another route saves the same game document: a
\* comment ($push), a leaderboard submission (the leaderboard array is set)
\* or an admin delete (the comments array is set).  Each increments the
\* document's __v and leaves the ratings as they are.
RateOtherSave ==
  /\ rtOther < MaxOtherSaves
  /\ rtOther' = rtOther + 1
  /\ rtVersion' = rtVersion + 1
  /\ UNCHANGED <<ratings, rtPc, rtReq, rtDoc, rtResp, rtLeft, lastRated>>
  /\ UNCHANGED <<importVars, boardVars, adminVars>>

RateNext ==
  \/ \E h \in Slots : RateFind(h)
  \/ \E h \in Slots : RatePush(h)
  \/ \E h \in Slots : RateSave(h)
  \/ \E h \in Slots : RateRespond(h)
  \/ RateOtherSave

\* ======================================================= comment moderation
Games == {"g1", "g2"}
\* req.params.id of a comment request: a game, or an id no game has
GameIds == Games \cup {"nogame"}
\* the order in which Game.find returns the games
GameOrder == <<"g1", "g2">>

\* the comment handler in flight, and the two requests the dashboard has in
\* flight (a press and the refresh that follows it, or two of either)
Posters == {"p1"}
Admins == {"a1", "a2"}

Idle == [pc |-> "idle"]
\* part_000:15  the dashboard has mounted with a token: fetchAdmin() is under way
Fetching == [pc |-> "fetch"]

AdminInit ==
  /\ comments = [g \in Games |-> <<>>]
  /\ cmVersion = [g \in Games |-> 0]
  /\ view = <<>>
  /\ ncomment = 0
  /\ npress = 0
  /\ post = [p \in Posters |-> [pc |-> "idle", status |-> 0]]
  /\ adm = [a \in Admins |-> IF a = "a1" THEN Fetching ELSE Idle]
  /\ cmOther = 0

\* Game.findById: the stored comments and the document's __v
Loaded(g) == [list |-> comments[g], v |-> cmVersion[g]]

\* ------------------------------------------ POST /api/games/:id/comment
\* server.js:81-85, 151-153  authMiddleware, then findById is sent
PostComment(p, g) ==
  /\ post[p].pc = "idle"
  /\ ncomment + Cardinality({q \in Posters : post[q].pc # "idle"}) < MaxComments
  /\ \E t \in Tokens :
       post' = [post EXCEPT ![p] =
                  IF t \in {"none", "invalid"}
                    THEN [pc |-> "idle", status |-> 401]
                    ELSE [pc |-> "find", g |-> g]]
  /\ UNCHANGED <<comments, cmVersion, view, ncomment, npress, adm, cmOther>>
  /\ UNCHANGED <<importVars, boardVars, rateVars>>

\* server.js:153-156  findById resolves: 404 when there is no such game;
\* else the comment is pushed onto the loaded document and save() is sent
PostFind(p) ==
  /\ post[p].pc = "find"
  /\ post' = [post EXCEPT ![p] =
                IF post[p].g \notin Games
                  THEN [pc |-> "idle", status |-> 404]
                  ELSE [@ EXCEPT !.pc = "save"]]
  /\ UNCHANGED <<comments, cmVersion, view, ncomment, npress, adm, cmOther>>
  /\ UNCHANGED <<importVars, boardVars, rateVars>>

\* server.js:155-156  what save() sends after comments.push: a $push of the
\* new subdocument, which has its own _id; it is applied to the stored
\* array whatever the array holds by then, and __v is incremented
Pushed(list, id) == Append(list, [_id |-> id, approved |-> FALSE])

PostSave(p) ==
  /\ post[p].pc = "save"
  /\ ncomment' = ncomment + 1
  /\ comments' = [comments EXCEPT ![post[p].g] = Pushed(@, ncomment + 1)]
  /\ cmVersion' = [cmVersion EXCEPT ![post[p].g] = @ + 1]
  /\ post' = [post EXCEPT ![p].pc = "send"]
  /\ UNCHANGED <<view, npress, adm, cmOther>>
  /\ UNCHANGED <<importVars, boardVars, rateVars>>

\* server.js:157  res.send({ ok: true })
PostRespond(p) ==
  /\ post[p].pc = "send"
  /\ post' = [post EXCEPT ![p] = [pc |-> "idle", status |-> 200]]
  /\ UNCHANGED <<comments, cmVersion, view, ncomment, npress, adm, cmOther>>
  /\ UNCHANGED <<importVars, boardVars, rateVars>>

\* ------------------------------------------------ GET /api/admin/comments
\* server.js:289-290  games.forEach(g => g.comments.forEach(c =>
\* items.push({ gameId, gameTitle, comment: c })))
RECURSIVE ItemsFrom(_, _)
ItemsFrom(cs, k) ==
  IF k > Len(GameOrder) THEN <<>>
  ELSE LET g == GameOrder[k] IN
         [i \in 1..Len(cs[g]) |-> [gameId |-> g, gameTitle |-> g, comment |-> cs[g][i]]]
           \o ItemsFrom(cs, k + 1)

\* server.js:286-292  GET /api/admin/comments
AdminComments(cs) == ItemsFrom(cs, 1)

\* server.js:286-292  the server answers the GET /admin/comments of a
\* refresh from what is stored at that moment; part_000:25 still waits for
\* the other requests of the Promise.all
FetchRead(a) ==
  /\ adm[a].pc = "fetch"
  /\ adm' = [adm EXCEPT ![a] = [pc |-> "read", data |-> AdminComments(comments)]]
  /\ UNCHANGED <<comments, cmVersion, view, ncomment, npress, post, cmOther>>
  /\ UNCHANGED <<importVars, boardVars, rateVars>>

\* part_000:26  setComments(c.data)
FetchAdmin(a) ==
  /\ adm[a].pc = "read"
  /\ view' = adm[a].data
  /\ adm' = [adm EXCEPT ![a] = Idle]
  /\ UNCHANGED <<comments, cmVersion, ncomment, npress, post, cmOther>>
  /\ UNCHANGED <<importVars, boardVars, rateVars>>

\* part_000:27  one of the four requests fails: the catch alerts and the
\* rows stay as they are
FetchFails(a) ==
  /\ adm[a].pc \in {"fetch", "read"}
  /\ adm' = [adm EXCEPT ![a] = Idle]
  /\ UNCHANGED <<comments, cmVersion, view, ncomment, npress, post, cmOther>>
  /\ UNCHANGED <<importVars, boardVars, rateVars>>

\* --------------------------------------------------- Approve and Delete
\* part_000:65  c.commentIndex||0 : an item without commentIndex gives 0
CommentIndex(c) == IF "commentIndex" \in DOMAIN c THEN c.commentIndex ELSE 0

\* server.js:298  !g.comments[idx]
NoCommentAt(list, ci) == ci + 1 > Len(list)

\* server.js:299  g.comments[idx].approved = true
Approved(list, ci) == [list EXCEPT ![ci + 1].approved = TRUE]

\* server.js:306  g.comments.splice(idx,1)
Spliced(list, ci) ==
  IF ci + 1 > Len(list) THEN list
  ELSE SubSeq(list, 1, ci) \o SubSeq(list, ci + 2, Len(list))

\* part_000:65, 30-31  the Approve button of row i: approveComment(c.gameId,
\* c.commentIndex||0) sends the POST
ApproveComment(a, i) ==
  /\ adm[a].pc = "idle"
  /\ i \in 1..Len(view)
  /\ npress < MaxPresses
  /\ npress' = npress + 1
  /\ adm' = [adm EXCEPT ![a] =
               [pc |-> "find", kind |-> "approve", c |-> view[i],
                ci |-> CommentIndex(view[i])]]
  /\ UNCHANGED <<comments, cmVersion, view, ncomment, post, cmOther>>
  /\ UNCHANGED <<importVars, boardVars, rateVars>>

\* part_000:65, 34-35  the Delete button of row i
DeleteComment(a, i) ==
  /\ adm[a].pc = "idle"
  /\ i \in 1..Len(view)
  /\ npress < MaxPresses
  /\ npress' = npress + 1
  /\ adm' = [adm EXCEPT ![a] =
               [pc |-> "find", kind |-> "delete", c |-> view[i],
                ci |-> CommentIndex(view[i])]]
  /\ UNCHANGED <<comments, cmVersion, view, ncomment, post, cmOther>>
  /\ UNCHANGED <<importVars, boardVars, rateVars>>

\* server.js:295-299  findById resolves; 404 when there is no comment at
\* idx; else approved is set on the loaded document and save() is sent.
\* Setting a flag that is already true changes nothing and save() sends
\* nothing.
ApproveFind(a) ==
  /\ adm[a].pc = "find" /\ adm[a].kind = "approve"
  /\ LET doc == Loaded(adm[a].c.gameId) IN
       adm' = [adm EXCEPT ![a] =
                 IF NoCommentAt(doc.list, adm[a].ci)
                   THEN [pc |-> "send", status |-> 404]
                 ELSE IF doc.list[adm[a].ci + 1].approved
                   THEN [pc |-> "send", status |-> 200]
                 ELSE [@ EXCEPT !.pc = "save"] @@ [v |-> doc.v]]
  /\ UNCHANGED <<comments, cmVersion, view, ncomment, npress, post, cmOther>>
  /\ UNCHANGED <<importVars, boardVars, rateVars>>

\* server.js:299  save() after comments[idx].approved = true sends a $set
\* of comments.<idx>.approved under the condition that __v is the loaded
\* one; if it is not, save() rejects (VersionError), the handler has no
\* catch and no response is sent
ApproveSave(a) ==
  /\ adm[a].pc = "save" /\ adm[a].kind = "approve"
  /\ LET g == adm[a].c.gameId IN
       IF cmVersion[g] # adm[a].v
         THEN /\ adm' = [adm EXCEPT ![a] = Idle]
              /\ UNCHANGED comments
         ELSE /\ comments' = [comments EXCEPT ![g] = Approved(@, adm[a].ci)]
              /\ adm' = [adm EXCEPT ![a] = [pc |-> "send", status |-> 200]]
  /\ UNCHANGED <<cmVersion, view, ncomment, npress, post, cmOther>>
  /\ UNCHANGED <<importVars, boardVars, rateVars>>

\* server.js:304-306  findById resolves, the element at idx is spliced out
\* of the loaded array and save() is sent
DeleteFind(a) ==
  /\ adm[a].pc = "find" /\ adm[a].kind = "delete"
  /\ LET doc == Loaded(adm[a].c.gameId) IN
       adm' = [adm EXCEPT ![a] =
                 [@ EXCEPT !.pc = "save"]
                   @@ [v |-> doc.v, list |-> Spliced(doc.list, adm[a].ci)]]
  /\ UNCHANGED <<comments, cmVersion, view, ncomment, npress, post, cmOther>>
  /\ UNCHANGED <<importVars, boardVars, rateVars>>

\* server.js:306  save() after splice sends a $set of the whole array under
\* the condition that __v is the loaded one, and increments __v; if __v has
\* moved, save() rejects (VersionError) and no response is sent
DeleteSave(a) ==
  /\ adm[a].pc = "save" /\ adm[a].kind = "delete"
  /\ LET g == adm[a].c.gameId IN
       IF cmVersion[g] # adm[a].v
         THEN /\ adm' = [adm EXCEPT ![a] = Idle]
              /\ UNCHANGED <<comments, cmVersion>>
         ELSE /\ comments' = [comments EXCEPT ![g] = adm[a].list]
              /\ cmVersion' = [cmVersion EXCEPT ![g] = @ + 1]
              /\ adm' = [adm EXCEPT ![a] = [pc |-> "send", status |-> 200]]
  /\ UNCHANGED <<view, ncomment, npress, post, cmOther>>
  /\ UNCHANGED <<importVars, boardVars, rateVars>>

\* server.js:300, 307 and part_000:31-32, 35-36  the response arrives: after
\* a 200 the await returns and fetchAdmin() is called; a 404 rejects the
\* await and nothing follows
AdminRespond(a) ==
  /\ adm[a].pc = "send"
  /\ adm' = [adm EXCEPT ![a] = IF adm[a].status = 200 THEN Fetching ELSE Idle]
  /\ UNCHANGED <<comments, cmVersion, view, ncomment, npress, post, cmOther>>
  /\ UNCHANGED <<importVars, boardVars, rateVars>>

\* server.js:146, 180  another route saves a game document: a rating (the
\* ratings array is set) or a leaderboard submission (the leaderboard array
\* is set).  Each increments the document's __v and leaves the comments as
\* they are.
OtherSave(g) ==
  /\ cmOther < MaxOtherSaves
  /\ cmOther' = cmOther + 1
  /\ cmVersion' = [cmVersion EXCEPT ![g] = @ + 1]
  /\ UNCHANGED <<comments, view, ncomment, npress, post, adm>>
  /\ UNCHANGED <<importVars, boardVars, rateVars>>

AdminNext ==
  \/ \E g \in Games : OtherSave(g)
  \/ \E p \in Posters, g \in GameIds : PostComment(p, g)
  \/ \E p \in Posters : PostFind(p)
  \/ \E p \in Posters : PostSave(p)
  \/ \E p \in Posters : PostRespond(p)
  \/ \E a \in Admins : FetchRead(a)
  \/ \E a \in Admins : FetchAdmin(a)
  \/ \E a \in Admins : FetchFails(a)
  \/ \E a \in Admins, i \in 1..MaxComments : ApproveComment(a, i)
  \/ \E a \in Admins, i \in 1..MaxComments : DeleteComment(a, i)
  \/ \E a \in Admins : ApproveFind(a)
  \/ \E a \in Admins : ApproveSave(a)
  \/ \E a \in Admins : DeleteFind(a)
  \/ \E a \in Admins : DeleteSave(a)
  \/ \E a \in Admins : AdminRespond(a)

vars == <<importVars, boardVars, rateVars, adminVars>>
Init == ImportInit /\ BoardOff /\ RateInit /\ AdminInit
Next == ImportNext
Spec == Init /\ [][Next]_vars

\* the import with interruptions
NextCrash ==
  \/ ImportNext
  \/ Crash
  \/ \E r \in Reqs : CreateLands(r)
  \/ \E r \in Reqs : SingleLands(r)
SpecCrash == Init /\ [][NextCrash]_vars

InitBoard == ImportInit /\ BoardInit /\ RateInit /\ AdminInit
NextBoard == BoardNext
SpecBoard == InitBoard /\ [][NextBoard]_vars

InitRate == ImportInit /\ BoardOff /\ RateInit /\ AdminInit
NextRate == RateNext
SpecRate == InitRate /\ [][NextRate]_vars

SpecAdmin == Init /\ [][AdminNext]_vars

\* ================================================================== claims
\* the import of request r has sent its summary
Completed(r) == resp[r].status = 200 /\ "created" \in DOMAIN resp[r]
Failed(r) == resp[r].status = 500

\* a step of request r's handler
StepOf(r) == <<pc[r], idx[r], fidx[r]>>' # <<pc[r], idx[r], fidx[r]>>

ManifestEntries(entries) ==
  SelectSeq(entries, LAMBDA e : ~e.isDirectory /\ IsManifest(e))
ParseableManifests(entries) ==
  SelectSeq(ManifestEntries(entries), LAMBDA e : e.data.json # "invalid")
FolderOf(e) == Front(e.entryName)

\* failures of one folder's materialization or record creation
FolderFaults == {"mkdir", "write", "rename", "collision", "db"}
\* failures the environment injects (I/O errors, database errors)
InjectedFaults == {"mkdir", "write", "rename", "db", "unlink"}

\* C1: a failure while materializing one folder's files or creating its
\* record does not make the import end Failed; only an unreadable archive
\* does.
C1_FolderFailureIsolated ==
  \A r \in Reqs : cause[r] \in FolderFaults => pc[r] # "done" \/ ~Failed(r)

\* C2: an admin import of an archive whose N folders all have a parseable
\* metadata.json and an index.html ends with created = N, N catalog records
\* and N pairwise distinct filePath values (no I/O or database failure
\* being injected).
C2_EveryValidFolderCreated ==
  \A r \in Reqs :
    LET n == Len(ManifestEntries(Entries(r))) IN
      ( /\ pc[r] = "done"
        /\ req[r].token = "admin"
        /\ req[r].upload.kind = "zip"
        /\ ParseableManifests(Entries(r)) = ManifestEntries(Entries(r))
        /\ cause[r] \notin InjectedFaults )
      => /\ Completed(r)
         /\ resp[r].created = n
         /\ Len(created[r]) = n
         /\ \A i, j \in 1..n : i # j => created[r][i].filePath # created[r][j].filePath

\* C3: a manifest that is not valid JSON is skipped without effect (the step
\* writes nothing, creates nothing and moves on to the next entry); an
\* import that completes has created one record for each valid manifest, in
\* order, each under its own folder's name; an archive without a valid
\* manifest causes no storage write and completes with created = 0.
C3_SkipLeavesNoTrace ==
  \A r \in Reqs :
    /\ ( /\ StepOf(r)
         /\ pc[r] = "scan"
         /\ idx[r] <= Len(Entries(r))
         /\ ~Entries(r)[idx[r]].isDirectory
         /\ IsManifest(Entries(r)[idx[r]])
         /\ Entries(r)[idx[r]].data.json = "invalid" )
       => /\ storage' = storage
          /\ catalog' = catalog
          /\ created' = created
          /\ pc'[r] = "scan"
          /\ idx'[r] = idx[r] + 1
    /\ (StepOf(r) /\ ParseableManifests(Entries(r)) = <<>>) => storage' = storage

C3_ValidSiblingsCreated ==
  \A r \in Reqs :
    Completed(r) =>
      LET valid == ParseableManifests(Entries(r)) IN
        /\ resp[r].created = Len(valid)
        /\ Len(created[r]) = Len(valid)
        /\ \A k \in 1..Len(valid) :
             \E t \in 0..MaxTime :
               created[r][k].filePath = ServeUrl(TargetFolderOf(FolderOf(valid[k]), t))

C3_InvalidManifestSkipped ==
  [][C3_SkipLeavesNoTrace]_vars /\ []C3_ValidSiblingsCreated

C3_Witness ==
  \E r, q \in Reqs :
    /\ Completed(r) /\ Entries(r) = ArchBroken /\ resp[r].created = 1
    /\ Completed(q) /\ Entries(q) = ArchNoValid /\ resp[q].created = 0
    /\ DOMAIN storage # {}

\* C4: an import whose archive cannot be opened ends Failed with an error
\* response, and none of its steps writes to storage or to the catalog.
C4_CorruptTouchesNothing ==
  \A r \in Reqs :
    (StepOf(r) /\ req'[r].upload.kind = "corrupt")
      => storage' = storage /\ catalog' = catalog

C4_CorruptEndsFailed ==
  \A r \in Reqs :
    (req[r].upload.kind = "corrupt" /\ req[r].token = "admin")
      => /\ created[r] = <<>>
         /\ pc[r] = "done" => (Failed(r) /\ DOMAIN resp[r] = {"status", "error"})

C4_CorruptArchiveFails ==
  [][C4_CorruptTouchesNothing]_vars /\ []C4_CorruptEndsFailed

C4_Witness ==
  \E r \in Reqs :
    /\ req[r].upload.kind = "corrupt" /\ req[r].token = "admin"
    /\ pc[r] = "done" /\ Failed(r) /\ cause[r] = "archive"

\* C5: a request without a valid token is answered 401 and one with a
\* non-admin role 403; none of its steps writes a game file or creates a
\* catalog record, and it never enters the import loop.
C5_NonAdminTouchesNothing ==
  \A r \in Reqs :
    (StepOf(r) /\ req'[r].token # "admin")
      => storage' = storage /\ catalog' = catalog

C5_NonAdminRejected ==
  \A r \in Reqs :
    (pc[r] # "new" /\ req[r].token # "admin")
      => /\ pc[r] \in {"upload", "handler", "single", "done"}
         /\ created[r] = <<>>
         /\ pc[r] = "done" =>
              resp[r].status = (IF req[r].token = "user" THEN 403 ELSE 401)

ManifestOf(r, k) == ParseableManifests(Entries(r))[k].data.value

Present(m, f, dflt) == IF f \in DOMAIN m THEN m[f] ELSE dflt
NonEmpty(m, f, dflt) == IF f \in DOMAIN m /\ m[f] # "" THEN m[f] ELSE dflt

\* C6 as stated: every record takes each field present in its manifest and
\* the default for each missing one.
C6_PresentFieldsTaken ==
  \A r \in Reqs : \A k \in 1..Len(created[r]) :
    LET m == ManifestOf(r, k)
        g == created[r][k]
    IN /\ g.title = Present(m, "title", "Untitled")
       /\ g.description = Present(m, "description", "")
       /\ g.category = Present(m, "category", "")
       /\ g.tags = Present(m, "tags", <<>>)
       /\ g.lesson.title = Present(m, "lessonTitle", "")
       /\ g.lesson.content = Present(m, "lessonContent", "")
       /\ g.quizzes = Present(m, "quizzes", <<>>)

\* C6 amended: every record takes each field that is present and, for the
\* text fields, not the empty string; a missing field, and an empty title,
\* gets the default.
C6_NonEmptyFieldsTaken ==
  \A r \in Reqs : \A k \in 1..Len(created[r]) :
    LET m == ManifestOf(r, k)
        g == created[r][k]
    IN /\ g.title = NonEmpty(m, "title", "Untitled")
       /\ g.description = NonEmpty(m, "description", "")
       /\ g.category = NonEmpty(m, "category", "")
       /\ g.tags = Present(m, "tags", <<>>)
       /\ g.lesson.title = NonEmpty(m, "lessonTitle", "")
       /\ g.lesson.content = NonEmpty(m, "lessonContent", "")
       /\ g.quizzes = Present(m, "quizzes", <<>>)
       /\ catalog[g._id] = g

C6_Witness ==
  \E r, q \in Reqs :
    /\ Completed(r) /\ Entries(r) = ArchBroken
    /\ created[r][1].title = "Untitled" /\ created[r][1].description = "d2"
    /\ Completed(q) /\ Entries(q) = ArchTwo
    /\ created[q][1].title = "Add" /\ created[q][2].title = "Untitled"
    /\ created[q][1].quizzes # <<>> /\ created[q][2].quizzes = <<>>

\* the records the database holds for the requests in S
RECURSIVE TotalStored(_)
TotalStored(S) ==
  IF S = {} THEN 0
  ELSE LET r == CHOOSE x \in S : TRUE
       IN Len(persisted[r]) + Len(screated[r]) + TotalStored(S \ {r})

\* C7: every record an import creates is a new catalog record, whatever the
\* catalog holds: the catalog holds exactly the records stored for the
\* imports (and for the single-game uploads), each under a fresh _id; an
\* import's `created` is the records stored for it, less the one whose
\* create it has not resumed from yet; a completed import has added one
\* record per valid manifest, and two completed imports of the same archive
\* with N valid folders have added 2N.
C7_NoExistenceCheck ==
  /\ Len(catalog) = TotalStored(Reqs)
  /\ \A i \in 1..Len(catalog) : catalog[i]._id = i
  /\ \A r \in Reqs : \A k \in 1..Len(persisted[r]) :
       catalog[persisted[r][k]._id] = persisted[r][k]
  /\ \A r \in Reqs :
       /\ Len(created[r]) <= Len(persisted[r])
       /\ created[r] = SubSeq(persisted[r], 1, Len(created[r]))
       /\ Len(persisted[r]) = Len(created[r]) + (IF pc[r] = "stored" THEN 1 ELSE 0)
  /\ \A r \in Reqs :
       Completed(r) => Len(persisted[r]) = Len(ParseableManifests(Entries(r)))
  /\ \A r, q \in Reqs :
       (r # q /\ Completed(r) /\ Completed(q) /\ Entries(r) = Entries(q))
         => /\ Len(persisted[r]) + Len(persisted[q])
                 = 2 * Len(ParseableManifests(Entries(r)))
            /\ Len(catalog) = 2 * Len(ParseableManifests(Entries(r)))

C7_Witness ==
  /\ \A r \in Reqs :
       /\ Completed(r) /\ Entries(r) = ArchTwo
       /\ Len(persisted[r]) = 2
  /\ Len(catalog) = 4
  /\ catalog[1].title = catalog[3].title

\* C8: the temp file of an upload is gone once the import reaches the
\* summary response, and it is still on disk in the catch block and after
\* the error response; of the finished requests that uploaded a file,
\* exactly the completed ones have had it deleted.
C8_TempFileDeletedOnSuccessOnly ==
  \A r \in Reqs :
    /\ (pc[r] = "send" \/ Completed(r)) => r \notin tmp
    /\ (pc[r] = "catch" \/ Failed(r)) => r \in tmp
    /\ (pc[r] = "done" /\ req[r].token \in {"user", "admin"} /\ req[r].upload.kind # "none")
         => (r \notin tmp <=> Completed(r))

C8_Witness ==
  \E r, q \in Reqs :
    /\ Completed(r) /\ r \notin tmp /\ resp[r].created > 0
    /\ Failed(q) /\ q \in tmp /\ cause[q] = "write"

\* a submission is between its push and the outcome of its save
Saving(h) == lbPc[h] = "saving"

\* C9: after any sequence of submissions the stored leaderboard has at most
\* 100 entries, is sorted by score in descending order with equal scores in
\* submission order, and consists of the highest-scored submissions made so
\* far: once no save is pending, every submission made is on the board, or
\* the board is full and holds no lower score.
C9_LeaderboardTopSorted ==
  LET n == Len(leaderboard)
      onBoard == {leaderboard[i] : i \in 1..n}
  IN /\ n <= 100
     /\ \A i, j \in 1..n :
          (i < j /\ HasScore(leaderboard[i]) /\ HasScore(leaderboard[j]))
            => /\ leaderboard[i].score >= leaderboard[j].score
               /\ leaderboard[i].score = leaderboard[j].score
                    => leaderboard[i].no < leaderboard[j].no
     /\ \A e \in onBoard : \E k \in 1..Len(submitted) : submitted[k] = e
     /\ (\A h \in Slots : ~Saving(h)) =>
          \A k \in 1..Len(submitted) :
            \/ submitted[k] \in onBoard
            \/ /\ n = 100
               /\ \A e \in onBoard :
                    (HasScore(e) /\ HasScore(submitted[k]))
                      => e.score >= submitted[k].score

\* a rate operation of user u is between its push and the outcome of its save
Rating_pending(u) == \E h \in Slots : rtPc[h] = "saving" /\ rtReq[h].user = u

\* C10: after any sequence of rate operations, interleaved ones of the same
\* user included, the ratings hold at most one rating per user, and once no
\* save of the user is pending that rating carries the score of the user's
\* most recent rate operation.
C10_OneRatingPerUser ==
  \A u \in Users :
    LET mine == {i \in 1..Len(ratings) : ratings[i].userId = u}
    IN /\ Cardinality(mine) <= 1
       /\ (u \in DOMAIN lastRated /\ ~Rating_pending(u))
            => \E i \in mine : ratings[i].score = lastRated[u]
       /\ u \notin DOMAIN lastRated => mine = {}

\* the archive entry the k-th record of request r was created from
SourceOf(r, k) == ParseableManifests(Entries(r))[k]

\* the number of parseable manifests the loop of r has gone past
ManifestsPassed(r) ==
  Len(ParseableManifests(SubSeq(Entries(r), 1, idx[r] - 1)))

\* C11: in every state, interrupted ones included, every catalog record was
\* stored for an import from one of its folders (or for a single-game
\* upload); every file of that folder is in storage, with that file's
\* content, under the folder the record's filePath is served from, and no
\* import is part-way through writing into that folder; while an import is
\* writing or finalizing a folder, or has its create pending, that folder
\* has no record yet.
C11_RecordsAfterFinalize ==
  /\ Len(catalog) = TotalStored(Reqs)
  /\ \A r \in Reqs : \A k \in 1..Len(persisted[r]) :
       LET g == persisted[r][k]
           folder == FolderOf(SourceOf(r, k))
           served == Front(ServedPath(g.filePath))
       IN /\ catalog[g._id] = g
          /\ \E t \in 0..MaxTime : g.filePath = ServeUrl(TargetFolderOf(folder, t))
          /\ \A j \in 1..Len(Entries(r)) :
               LET en == Entries(r)[j] IN
                 (StartsWithFolder(en, folder) /\ ~en.isDirectory)
                   => /\ (served \o Rel(en, folder)) \in DOMAIN storage
                      /\ storage[served \o Rel(en, folder)] = en.data
          /\ \A q \in Reqs :
               (pc[q] = "write" /\ fidx[q] > 1) => targetFolder[q] # served
  /\ \A r \in Reqs :
       pc[r] \in {"write", "rename", "create", "await", "orphaned"}
         => Len(persisted[r]) = ManifestsPassed(r)

\* a folder of request r has its destination and its record is not created yet
Materializing(r) == pc[r] \in {"write", "rename", "create", "await"}

\* C12: any two folder materializations have different destinations: the
\* records imports have created reference pairwise different paths, a folder
\* being materialized has a destination no record references, and two
\* imports that materialize at the same time write to different folders.
C12_DistinctDestinations ==
  /\ \A r, q \in Reqs : \A k \in 1..Len(created[r]) : \A l \in 1..Len(created[q]) :
       <<r, k>> # <<q, l>> => created[r][k].filePath # created[q][l].filePath
  /\ \A r \in Reqs :
       Materializing(r)
         => \A q \in Reqs : \A k \in 1..Len(created[q]) :
              created[q][k].filePath # ServeUrl(targetFolder[r])
  /\ \A r, q \in Reqs :
       (r # q /\ Materializing(r) /\ Materializing(q))
         => /\ targetFolder[r] # targetFolder[q]
            /\ DestDir(targetFolder[r]) # DestDir(targetFolder[q])

\* the comments of game g without the one whose _id is cid
WithoutComment(list, cid) == SelectSeq(list, LAMBDA c : c._id # cid)

\* the comments of game g with the one whose _id is cid approved
WithApproved(list, cid) ==
  [k \in 1..Len(list) |->
     IF list[k]._id = cid THEN [list[k] EXCEPT !.approved = TRUE] ELSE list[k]]

\* the step in which the server stores the effect of a press
PressStored(a) == adm[a].pc = "save" /\ adm'[a].pc = "send"

C13_PressHitsItsRow ==
  \A a \in Admins :
    PressStored(a) =>
      LET g == adm[a].c.gameId
          cid == adm[a].c.comment._id
      IN comments' = [comments EXCEPT ![g] =
                        IF adm[a].kind = "approve"
                          THEN WithApproved(@, cid) ELSE WithoutComment(@, cid)]

\* C13: when the server stores an Approve pressed on a row, the comment
\* shown in that row is approved and every other comment is as it was; when
\* it stores a Delete pressed on a row, the comment shown in that row is
\* gone and every other comment is as it was.
C13_ExactlyThatComment == [][C13_PressHitsItsRow]_vars

====
